---- MODULE Spec2Model ----
(***************************************************************************)
(* Model of src/V.py: the online, windowed Viterbi decoder (class Viterbi). *)
(*                                                                         *)
(* Probabilities are exact non-negative rationals <<n, d>> in lowest terms *)
(* (the source uses floats; rounding is outside this model).  Python dicts *)
(* are sequences of <<key, value>> pairs in insertion order, because the   *)
(* source iterates over them; dict equality ignores the order (AsMap).     *)
(***************************************************************************)
EXTENDS Integers, Sequences, FiniteSets, TLC

\* ---------------------------------------------------------------- bounds
MaxSteps == 3     \* number of step calls explored by Spec
MaxCL == 2        \* largest constraint_length configured

\* ------------------------------------------------------------- rationals
RECURSIVE GCD(_, _)
GCD(a, b) == IF b = 0 THEN a ELSE GCD(b, a % b)

Rat(n, d) == IF n = 0 THEN <<0, 1>> ELSE <<n \div GCD(n, d), d \div GCD(n, d)>>
Zero == Rat(0, 1)
One == Rat(1, 1)
RMul(a, b) == Rat(a[1] * b[1], a[2] * b[2])
RDiv(a, b) == Rat(a[1] * b[2], a[2] * b[1])
RAdd(a, b) == Rat(a[1] * b[2] + b[1] * a[2], a[2] * b[2])
RLt(a, b) == a[1] * b[2] < b[1] * a[2]
RLe(a, b) == ~RLt(b, a)

\* ------------------------------------------------------------ dict helpers
KeySet(d) == {d[i][1] : i \in 1..Len(d)}
Has(d, k) == k \in KeySet(d)
Get(d, k) == d[CHOOSE i \in 1..Len(d) : d[i][1] = k][2]
Put(d, k, v) ==
    IF Has(d, k)
    THEN [i \in 1..Len(d) |-> IF d[i][1] = k THEN <<k, v>> ELSE d[i]]
    ELSE Append(d, <<k, v>>)
Del(d, k) == SelectSeq(d, LAMBDA e : e[1] # k)
AsMap(d) == [k \in KeySet(d) |-> Get(d, k)]
DictEq(d1, d2) == AsMap(d1) = AsMap(d2)

RECURSIVE SumValues(_)
SumValues(d) == IF d = <<>> THEN Zero ELSE RAdd(d[1][2], SumValues(Tail(d)))

\* ------------------------------------------------------ model parameters
States == {"A", "B", "C"}
Obs == {"x", "y", "z", "w"}

half == Rat(1, 2)
quarter == Rat(1, 4)
threeq == Rat(3, 4)
tenth == Rat(1, 10)
ninetenths == Rat(9, 10)

\* the two-state graph A->A 0.9, A->B 0.1, B->A 0.1, B->B 0.9
ScenarioGraph ==
    << <<"A", << <<"A", ninetenths>>, <<"B", tenth>> >> >>,
       <<"B", << <<"A", tenth>>, <<"B", ninetenths>> >> >> >>

\* a graph with edge probabilities outside (0,1]: 0 on A->B, 1.5 on B->B
MalformedGraph ==
    << <<"A", << <<"A", half>>, <<"B", Zero>> >> >>,
       <<"B", << <<"B", Rat(3, 2)>> >> >> >>

\* hmm: state -> [(next_state, probability)], in listing order
Graphs == {
    \* two states, every state has an incoming edge
    << <<"A", << <<"A", half>>, <<"B", half>> >> >>,
       <<"B", << <<"B", One>> >> >> >>,
    \* three states, A has no incoming edge
    << <<"A", << <<"C", One>> >> >>,
       <<"B", << <<"B", One>> >> >>,
       <<"C", << <<"C", One>> >> >> >>,
    \* three states, fully reachable, with ties
    << <<"A", << <<"A", threeq>>, <<"B", quarter>> >> >>,
       <<"B", << <<"A", quarter>>, <<"B", half>>, <<"C", quarter>> >> >>,
       <<"C", << <<"C", half>>, <<"A", half>> >> >> >>,
    ScenarioGraph,
    MalformedGraph }

\* priors argument of the constructor; <<>> stands for None (and for {})
PriorArgs == {
    <<>>,
    << <<"A", Zero>>, <<"B", One>> >>,
    << <<"A", half>>, <<"B", quarter>>, <<"C", quarter>> >> }

\* smallV argument of the constructor
Floors == {Zero, Rat(1, 5), Rat(3, 5), Rat(2, 1)}

\* emission_probability argument: a table (state, observation) -> [0..1]
EmissionTable ==
    [s \in States, o \in Obs |->
        CASE o = "x" -> One
          [] o = "y" -> Zero
          [] o = "z" -> (CASE s = "A" -> quarter [] s = "B" -> threeq [] OTHER -> One)
          [] o = "w" -> (CASE s = "A" -> tenth [] s = "B" -> ninetenths [] OTHER -> Zero)]

\* candidate_states argument: <<>> stands for None, else observation -> states
CandidateArgs == {
    <<>>,
    << <<"x", <<"C">> >>, <<"y", <<"A", "B">> >>, <<"z", <<>> >>,
       <<"w", <<"B", "C", "A">> >> >>,
    << <<"x", <<"B", "A">> >>, <<"y", <<>> >>, <<"z", <<"C", "B">> >>,
       <<"w", <<"A">> >> >> }

\* ------------------------------------------------------------- variables
VARIABLES
    hmm,                  \* self.hmm
    emission_probability, \* self.emission_probability
    constraint_length,    \* self.constraint_length
    candidate_states,     \* self.candidate_states
    priors,               \* self.priors
    incoming,             \* self.incoming
    smallV,               \* self.smallV
    V,                    \* the caller's distribution: [isNone, d]
    path,                 \* the caller's path table
    argV,                 \* the distribution object passed to the last step, after it
    argPath,              \* the path object passed to the last step, after it
    prePath,              \* the path table passed to the last step, as it was before it
    rawV,                 \* new_V of the last step after the loop, before line 78
    bestFrom,             \* max_from of the last step, per scored to_state
    normV,                \* new_V of the last step after line 78, before pruning
    err,                  \* "none", or the exception the last step raised
    obs,                  \* the observation of the last step
    nsteps,               \* number of step calls made
    constructed           \* the constructor returned an engine (it did not raise)

vars == <<hmm, emission_probability, constraint_length, candidate_states, priors,
          incoming, smallV, V, path, argV, argPath, prePath, rawV, bestFrom, normV, err, obs,
          nsteps, constructed>>
engine == <<hmm, emission_probability, constraint_length, candidate_states,
            incoming, smallV, constructed>>

None == [isNone |-> TRUE, d |-> <<>>]
Some(d) == [isNone |-> FALSE, d |-> d]

\* ------------------------------------------------------------- __init__
\* an edge probability outside (0,1]
Malformed(h) ==
    \E i \in 1..Len(h) : \E j \in 1..Len(h[i][2]) :
        ~RLt(Zero, h[i][2][j][2]) \/ RLt(One, h[i][2][j][2])

\* (variant: the constructor checks the edge probabilities)
ConstructionError_Validating(h) ==
    IF Malformed(h) THEN "ConfigurationError" ELSE "none"

\* lines 14-35: the constructor stores and inverts hmm, it raises on no graph
ConstructionError(h) == "none"

\* lines 29-34: invert every edge of hmm
RECURSIVE IncomingLoop(_, _, _, _)
IncomingLoop(h, i, j, inc) ==
    IF i > Len(h) THEN inc
    ELSE IF j > Len(h[i][2]) THEN IncomingLoop(h, i + 1, 1, inc)
    ELSE LET from_state == h[i][1]
             to_state == h[i][2][j][1]
             probability == h[i][2][j][2]
             inc1 == IF ~Has(inc, to_state) THEN Put(inc, to_state, <<>>) ELSE inc
         IN IncomingLoop(h, i, j + 1,
                Put(inc1, to_state, Put(Get(inc1, to_state), from_state, probability)))
\* (variant: the edges are stored as listed, from_state -> to_state)
BuildIncoming_Forward(h) == h

BuildIncoming(h) == IncomingLoop(h, 1, 1, <<>>)

\* lines 22-27: uniform priors over the states of hmm unless priors are given
UniformPriors(h) == [i \in 1..Len(h) |-> <<h[i][1], Rat(1, Len(h))>>]
InitPriors(h, priorArg) == IF priorArg = <<>> THEN UniformPriors(h) ELSE priorArg

\* lines 17-20: the default candidate function returns hmm.keys()
HmmKeys(h) == [i \in 1..Len(h) |-> h[i][1]]
InitCandidates(h, candArg) ==
    IF candArg # <<>> THEN [o \in Obs |-> Get(candArg, o)]
    ELSE [o \in Obs |-> HmmKeys(h)]

\* ------------------------------------------------------------- normalize
\* (variant: no reset to the priors when the mass is 0)
normalize_NoReset(pr, d) ==
    IF SumValues(d) = Zero THEN d
    ELSE [i \in 1..Len(d) |-> <<d[i][1], RDiv(d[i][2], SumValues(d))>>]

\* (variant: the masses are returned without dividing by their sum)
normalize_NoDivide(pr, d) == IF SumValues(d) = Zero THEN pr ELSE d

\* lines 87-94: rescale to sum 1, or a copy of the priors when the mass is 0
normalize(pr, d) ==
    IF SumValues(d) = Zero THEN pr
    ELSE [i \in 1..Len(d) |-> <<d[i][1], RDiv(d[i][2], SumValues(d))>>]

\* ------------------------------------------------------------------ step
\* lines 46-48: candidates of the observation with a positive emission
nonzero_eps(cands, emis, o) ==
    SelectSeq([i \in 1..Len(cands[o]) |-> <<cands[o][i], emis[cands[o][i], o]>>],
              LAMBDA state_ep : RLt(Zero, state_ep[2]))

\* lines 54-56: iterate the predecessors of to_state, keep those with mass > 0 in V
IncomingDriven(inc_to, d) ==
    SelectSeq(inc_to, LAMBDA e : Has(d, e[1]) /\ RLt(Zero, Get(d, e[1])))

\* lines 59-60: iterate V, keep the states that are predecessors of to_state
DistributionDriven(inc_to, d) ==
    LET kept == SelectSeq(d, LAMBDA e : Has(inc_to, e[1]))
    IN [i \in 1..Len(kept) |-> <<kept[i][1], Get(inc_to, kept[i][1])>>]

\* lines 53-60
nonzero_incoming(inc_to, d) ==
    IF Len(inc_to) < Len(d) THEN IncomingDriven(inc_to, d)
    ELSE DistributionDriven(inc_to, d)

\* (variant: the transition probability is left out of the score)
from_probs_NoTransition(d, e, nzi) ==
    [i \in 1..Len(nzi) |-> <<RMul(Get(d, nzi[i][1]), e), nzi[i][1]>>]

\* lines 64-68: [(V[from] * emission * p_trans, from)]
from_probs(d, e, nzi) ==
    [i \in 1..Len(nzi) |-> <<RMul(RMul(Get(d, nzi[i][1]), e), nzi[i][2]), nzi[i][1]>>]

\* (variant: the last maximal element wins)
MaxFirst_Last(fp) ==
    fp[CHOOSE i \in 1..Len(fp) :
          /\ \A j \in 1..Len(fp) : RLe(fp[j][1], fp[i][1])
          /\ \A j \in (i + 1)..Len(fp) : RLt(fp[j][1], fp[i][1])]

\* line 70: max(..., key=itemgetter(0)) returns the first maximal element
MaxFirst(fp) ==
    fp[CHOOSE i \in 1..Len(fp) :
          /\ \A j \in 1..Len(fp) : RLe(fp[j][1], fp[i][1])
          /\ \A j \in 1..(i - 1) : RLt(fp[j][1], fp[i][1])]

\* lines 73-74: the predecessor gets an empty entry in the caller's path table
EnsureEntry(p, max_from) == IF ~Has(p, max_from) THEN Put(p, max_from, <<>>) ELSE p

\* (variant: the window is popped only once it is longer than constraint_length)
NeedsPop_Greater(p, max_from, cl) == Len(Get(p, max_from)) > cl

\* lines 75-76: path[max_from].pop(0) when the window is full (in place)
NeedsPop(p, max_from, cl) == Len(Get(p, max_from)) = cl
\* (variant: pop() takes the newest element instead of the oldest)
PopOldest_Newest(p, max_from) ==
    Put(p, max_from, SubSeq(Get(p, max_from), 1, Len(Get(p, max_from)) - 1))

PopOldest(p, max_from) == Put(p, max_from, Tail(Get(p, max_from)))

\* (variant: the extension reads the path computed in this step when there is one)
Extend_FromNew(np, p, max_from, to_state) ==
    Put(np, to_state,
        Append(IF Has(np, max_from) THEN Get(np, max_from) ELSE Get(p, max_from),
               to_state))

\* line 77: new_path[to_state] = path[max_from] + [to_state]
Extend(np, p, max_from, to_state) ==
    Put(np, to_state, Append(Get(p, max_from), to_state))

\* lines 50-77: one iteration per candidate;
\* acc = [new_V, new_path, path, err, norm, best]
RECURSIVE CandidateLoop(_, _, _, _, _, _)
CandidateLoop(eps, i, d, inc, cl, acc) ==
    IF i > Len(eps) \/ acc.err # "none" THEN acc
    ELSE LET to_state == eps[i][1]
             e == eps[i][2]
         IN IF ~Has(inc, to_state)
            THEN [acc EXCEPT !.err = "KeyError"]          \* line 53: self.incoming[to_state]
            ELSE LET fp == from_probs(d, e, nonzero_incoming(Get(inc, to_state), d))
                 IN IF Len(fp) = 0
                    THEN CandidateLoop(eps, i + 1, d, inc, cl, acc)
                    ELSE LET best == MaxFirst(fp)
                             max_prob == best[1]
                             max_from == best[2]
                             p1 == EnsureEntry(acc.path, max_from)
                         IN IF NeedsPop(p1, max_from, cl) /\ Get(p1, max_from) = <<>>
                            THEN [acc EXCEPT !.new_V = Put(acc.new_V, to_state, max_prob),
                                             !.path = p1,
                                             !.err = "IndexError"]   \* line 76: pop from empty list
                            ELSE LET p2 == IF NeedsPop(p1, max_from, cl)
                                           THEN PopOldest(p1, max_from) ELSE p1
                                 IN CandidateLoop(eps, i + 1, d, inc, cl,
                                      [new_V |-> Put(acc.new_V, to_state, max_prob),
                                       new_path |-> Extend(acc.new_path, p2, max_from, to_state),
                                       path |-> p2,
                                       err |-> "none",
                                       norm |-> <<>>,
                                       best |-> Put(acc.best, to_state, max_from)])

\* (variant: only the states of mass 0 count as small)
small_OnlyZero(d, floor) == SelectSeq(d, LAMBDA e : e[2] = Zero)

\* line 79: the states whose normalized mass is below smallV
small(d, floor) == SelectSeq(d, LAMBDA e : RLt(e[2], floor))

\* (variant: nothing is deleted from new_V)
PruneV_NoPrune(d, floor) == d

\* lines 80-84: delete the small states from new_V, and from new_path if present
PruneV(d, floor) == SelectSeq(d, LAMBDA e : ~Has(small(d, floor), e[1]))
PrunePath(np, d, floor) == SelectSeq(np, LAMBDA e : ~Has(small(d, floor), e[1]))

\* lines 41-42: V = dict(self.priors) when V is None
SeedV(v, pr) == IF v.isNone THEN pr ELSE v.d

\* lines 37-85: the whole call;
\* result = [new_V, new_path, path, err, norm, raw, best]
StepResult(o, v, p, pr, inc, cands, emis, cl, floor) ==
    LET acc == CandidateLoop(nonzero_eps(cands, emis, o), 1, SeedV(v, pr), inc, cl,
                             [new_V |-> <<>>, new_path |-> <<>>, path |-> p, err |-> "none",
                              norm |-> <<>>, best |-> <<>>])
        nv == normalize(pr, acc.new_V)
    IN IF acc.err # "none"
       THEN [new_V |-> acc.new_V, new_path |-> acc.new_path, path |-> acc.path,
             err |-> acc.err, norm |-> <<>>, raw |-> <<>>, best |-> <<>>]
       ELSE [new_V |-> PruneV(nv, floor),
             norm |-> nv,
             raw |-> acc.new_V,
             best |-> acc.best,
             new_path |-> PrunePath(acc.new_path, nv, floor),
             path |-> acc.path,
             err |-> "none"]

\* (variant: normalize hands out self.priors itself, so pruning deletes from it)
PriorsAfterStep_Aliased(pr, floor) == SelectSeq(pr, LAMBDA e : ~RLt(e[2], floor))

\* self.priors after a step: normalize and step only ever copy it (lines 42, 92)
PriorsAfterStep(pr, floor) == pr

\* ------------------------------------------------------ the state machine
Init ==
    /\ hmm \in Graphs
    /\ \E priorArg \in PriorArgs :
          /\ KeySet(priorArg) \subseteq KeySet(hmm)
          /\ priors = InitPriors(hmm, priorArg)
    /\ \E candArg \in CandidateArgs :
          /\ \A i \in 1..Len(candArg) :
                \A k \in 1..Len(candArg[i][2]) : candArg[i][2][k] \in KeySet(hmm)
          /\ candidate_states = InitCandidates(hmm, candArg)
    /\ emission_probability = EmissionTable
    /\ constraint_length \in 0..MaxCL
    /\ smallV \in Floors
    /\ incoming = BuildIncoming(hmm)
    /\ V \in {None, Some(<<>>)}
    /\ path = <<>>
    /\ argV = None
    /\ argPath = <<>>
    /\ prePath = <<>>
    /\ rawV = <<>>
    /\ bestFrom = <<>>
    /\ normV = <<>>
    /\ err = "none"
    /\ obs = "x"
    /\ nsteps = 0
    /\ constructed = (ConstructionError(hmm) = "none")

\* one call new_V, new_path = step(o, V, path) by the caller, who threads the
\* returned pair; when the call raises, the caller keeps the pair it passed
StepBody(o) ==
    LET r == StepResult(o, V, path, priors, incoming, candidate_states,
                        emission_probability, constraint_length, smallV)
    IN /\ obs' = o
       /\ err' = r.err
       /\ argV' = V
       /\ argPath' = r.path
       /\ prePath' = path
       /\ rawV' = r.raw
       /\ bestFrom' = r.best
       /\ normV' = r.norm
       /\ V' = IF r.err = "none" THEN Some(r.new_V) ELSE V
       /\ path' = IF r.err = "none" THEN r.new_path ELSE r.path
       /\ priors' = PriorsAfterStep(priors, smallV)
       /\ nsteps' = nsteps + 1
       /\ UNCHANGED engine

Step == constructed /\ nsteps < MaxSteps /\ \E o \in Obs : StepBody(o)

Next == Step

Spec == Init /\ [][Next]_vars

\* ------------------------------------------------------------ properties
\* a step has been called and the last call returned (V, path) without raising
Returned == nsteps > 0 /\ err = "none"

\* the last observation had no candidate, or only candidates of emission 0
NoViable ==
    \A i \in 1..Len(candidate_states[obs]) :
        emission_probability[candidate_states[obs][i], obs] = Zero

Mass(d, s) == Get(d, s)
MaxPriorAtLeast(floor) == \E i \in 1..Len(priors) : RLe(floor, priors[i][2])
ZeroDicts == {d \in UNION {[1..n -> States \X {Zero}] : n \in 0..Cardinality(States)} :
                 \A i, j \in 1..Len(d) : i # j => d[i][1] # d[j][1]}

\* C1: after any step that returns, every key of the returned path table is
\* a key of the returned distribution (also when normalize fell back to priors).
C1_PathKeysInDistribution == Returned => KeySet(path) \subseteq KeySet(V.d)

\* C2: for every constraint_length >= 0, every step returns (it does not raise
\* from the window truncation) a path table whose paths have length at most
\* constraint_length.
C2_WindowBound ==
    /\ err # "IndexError"
    /\ Returned => \A s \in KeySet(path) : Len(Get(path, s)) <= constraint_length

\* C3: a step leaves the distribution and the path table it was given as they
\* were before the call.
C3_NoMutation == [][argV' = V /\ argPath' = path]_vars

\* C4 (as stated): a step whose observation has no candidate, or only
\* candidates of emission 0, returns a distribution equal to the priors.
C4_RecoveryEqualsPriors == (Returned /\ NoViable) => DictEq(V.d, priors)

\* C4 (amended): such a step returns the priors without the states whose prior
\* mass is below smallV; it equals the priors when no prior is below smallV.
C4_RecoveryEqualsPrunedPriors ==
    (Returned /\ NoViable) =>
        /\ KeySet(V.d) = {s \in KeySet(priors) : RLe(smallV, Mass(priors, s))}
        /\ \A s \in KeySet(V.d) : Mass(V.d, s) = Mass(priors, s)
        /\ (\A s \in KeySet(priors) : RLe(smallV, Mass(priors, s))) => DictEq(V.d, priors)

C4_Witness ==
    /\ Returned /\ NoViable
    /\ V.d # <<>>
    /\ KeySet(V.d) # KeySet(priors)

\* the caller holds an empty distribution and an empty path table, and every
\* observation makes the step return that same pair again: every distribution
\* returned from here on is empty, although some observation has candidates
\* of positive emission
StuckAtEmpty ==
    /\ Returned /\ V.d = <<>> /\ path = <<>>
    /\ \E o \in Obs : nonzero_eps(candidate_states, emission_probability, o) # <<>>
    /\ \A o \in Obs :
          LET r == StepResult(o, V, path, priors, incoming, candidate_states,
                              emission_probability, constraint_length, smallV)
          IN r.err = "none" /\ r.new_V = <<>> /\ r.new_path = <<>> /\ r.path = <<>>

\* C5 (as stated): for any floor >= 0, decoding never reaches a point after
\* which every returned distribution is empty.
C5_NeverStuck == ~StuckAtEmpty

\* C5 (amended): when smallV does not exceed the largest prior mass, a step
\* that is given an empty distribution and returns, returns a non-empty one,
\* so no two consecutive steps return an empty distribution.
C5_EmptyIsLeft ==
    [][(~V.isNone /\ V.d = <<>> /\ err' = "none" /\ MaxPriorAtLeast(smallV))
          => V'.d # <<>>]_vars

C5_Witness ==
    /\ Returned /\ nsteps > 1
    /\ ~argV.isNone /\ argV.d = <<>>
    /\ V.d # <<>>
    /\ RLt(Zero, smallV)

\* C6 (as stated): the distribution returned by every step sums to 1,
\* including steps in which pruning removed states.
C6_SumsToOne == Returned => SumValues(V.d) = One

\* C6 (amended): the distribution sums to 1 after normalization and before
\* pruning; the returned distribution sums to 1 minus the mass of the states
\* pruned in that step, hence to 1 when no state of positive mass was pruned.
C6_SumsToOneBeforePruning ==
    Returned =>
        /\ SumValues(normV) = One
        /\ RAdd(SumValues(V.d),
                SumValues(SelectSeq(normV, LAMBDA e : ~Has(V.d, e[1])))) = One
        /\ KeySet(V.d) = KeySet(normV) => SumValues(V.d) = One

C6_Witness ==
    /\ Returned
    /\ V.d # <<>>
    /\ RLt(SumValues(V.d), One)
    /\ normV # priors

\* C7: after any step no state of the returned distribution has mass strictly
\* below smallV, also when the distribution was reset to the priors.
C7_PruningFloor == Returned => \A i \in 1..Len(V.d) : ~RLt(V.d[i][2], smallV)

C7_Witness ==
    /\ Returned /\ NoViable
    /\ normV = priors
    /\ Len(V.d) < Len(priors)
    /\ RLt(Zero, smallV)

\* C8: after any step every state of the returned distribution has an entry in
\* the returned path table, also when the step reset to the priors.
C8_DistributionKeysHavePath == Returned => KeySet(V.d) \subseteq KeySet(path)

\* C9 (as stated): for any floor >= 0, every state of the returned
\* distribution has mass > 0.
C9_PositiveMass == Returned => \A i \in 1..Len(V.d) : RLt(Zero, V.d[i][2])

\* C9 (amended): for any floor > 0 every state of the returned distribution
\* has mass > 0; with floor = 0 states of mass exactly 0 are retained (no mass
\* is negative).
C9_PositiveMassAboveZeroFloor ==
    Returned => \A i \in 1..Len(V.d) :
        /\ RLe(Zero, V.d[i][2])
        /\ RLt(Zero, smallV) => RLt(Zero, V.d[i][2])

C9_Witness ==
    /\ Returned
    /\ RLt(Zero, smallV)
    /\ \E i \in 1..Len(normV) : normV[i][2] = Zero
    /\ V.d # <<>>

\* C10: normalize of the empty distribution and of any distribution of total
\* mass 0 equals the priors the engine was constructed with, after any number
\* of steps.
C10_DegenerateRecovery ==
    \E priorArg \in PriorArgs :
        /\ KeySet(priorArg) \subseteq KeySet(hmm)
        /\ \A z \in ZeroDicts : DictEq(normalize(priors, z), InitPriors(hmm, priorArg))

C10_Witness ==
    /\ Returned /\ nsteps = MaxSteps
    /\ Len(V.d) < Len(normV)
    /\ normV = priors

\* C11: for any non-empty distribution of positive total mass, normalize
\* keeps the key set, gives every state its mass divided by the total, and the
\* result sums to 1.
C11_Normalization ==
    (Returned /\ rawV # <<>> /\ RLt(Zero, SumValues(rawV))) =>
        /\ KeySet(normV) = KeySet(rawV)
        /\ \A s \in KeySet(rawV) :
              RMul(Mass(normV, s), SumValues(rawV)) = Mass(rawV, s)
        /\ SumValues(normV) = One

C11_Witness ==
    /\ Returned
    /\ Len(rawV) > 1
    /\ RLt(Zero, SumValues(rawV))
    /\ SumValues(rawV) # One
    /\ \E i \in 1..Len(rawV) : rawV[i][2] = Zero

LastFromProbs(to_state) ==
    from_probs(SeedV(argV, priors), emission_probability[to_state, obs],
               nonzero_incoming(Get(incoming, to_state), SeedV(argV, priors)))

\* C13: when several predecessors of a candidate give the same maximal score,
\* the predecessor recorded as max_from is the one met first in the
\* predecessor iteration order.
C13_FirstEncounteredWins ==
    Returned => \A to_state \in KeySet(bestFrom) :
        \E i \in 1..Len(LastFromProbs(to_state)) :
            /\ LastFromProbs(to_state)[i][2] = Get(bestFrom, to_state)
            /\ \A j \in 1..Len(LastFromProbs(to_state)) :
                  RLe(LastFromProbs(to_state)[j][1], LastFromProbs(to_state)[i][1])
            /\ \A j \in 1..(i - 1) :
                  RLt(LastFromProbs(to_state)[j][1], LastFromProbs(to_state)[i][1])

C13_Witness ==
    /\ Returned
    /\ \E to_state \in KeySet(bestFrom) :
          \E i, j \in 1..Len(LastFromProbs(to_state)) :
              /\ i < j
              /\ LastFromProbs(to_state)[i][2] = Get(bestFrom, to_state)
              /\ LastFromProbs(to_state)[j][1] = LastFromProbs(to_state)[i][1]
              /\ RLt(Zero, LastFromProbs(to_state)[i][1])

\* C14: a candidate of positive emission that has no incoming edge in the
\* graph gets no score; the step completes without an error.
C14_NoIncomingNotScored ==
    \A i \in 1..Len(candidate_states[obs]) :
        (/\ nsteps > 0
         /\ RLt(Zero, emission_probability[candidate_states[obs][i], obs])
         /\ ~Has(incoming, candidate_states[obs][i]))
        => /\ err # "KeyError"
           /\ err = "none" => ~Has(rawV, candidate_states[obs][i])

PairSet(sq) == {sq[i] : i \in 1..Len(sq)}

\* C15: for every candidate and every distribution a step can be given
\* (states of mass 0 included), iterating the predecessors filtered by the
\* distribution and iterating the distribution filtered by the predecessors
\* give the same set: the predecessors of positive mass in the distribution.
C15_DriversAgree ==
    \A to_state \in KeySet(incoming) :
        /\ PairSet(IncomingDriven(Get(incoming, to_state), SeedV(V, priors)))
            = PairSet(DistributionDriven(Get(incoming, to_state), SeedV(V, priors)))
        /\ \A e \in PairSet(DistributionDriven(Get(incoming, to_state), SeedV(V, priors))) :
              RLt(Zero, Mass(SeedV(V, priors), e[1]))

\* the path recorded for from_state before the last step (absent counts as
\* empty), without its oldest element when it held constraint_length elements
PreStepTail(from_state) ==
    LET pre == IF Has(prePath, from_state) THEN Get(prePath, from_state) ELSE <<>>
    IN IF pre # <<>> /\ Len(pre) = constraint_length THEN Tail(pre) ELSE pre

Front(sq) == SubSeq(sq, 1, Len(sq) - 1)

\* C16: when one predecessor is the arg-max of two different candidates in a
\* step, both new paths are the pre-step path of that predecessor, truncated
\* the same way, followed by the respective candidate.
C16_SharedPredecessor ==
    Returned => \A t1, t2 \in KeySet(path) :
        (t1 # t2 /\ Get(bestFrom, t1) = Get(bestFrom, t2)) =>
            /\ Front(Get(path, t1)) = PreStepTail(Get(bestFrom, t1))
            /\ Front(Get(path, t2)) = PreStepTail(Get(bestFrom, t1))
            /\ Get(path, t1)[Len(Get(path, t1))] = t1
            /\ Get(path, t2)[Len(Get(path, t2))] = t2

C16_Witness ==
    /\ Returned
    /\ \E t1, t2 \in KeySet(path) :
          /\ t1 # t2
          /\ Get(bestFrom, t1) = Get(bestFrom, t2)
          /\ Has(prePath, Get(bestFrom, t1))
          /\ Len(Get(prePath, Get(bestFrom, t1))) = constraint_length
          /\ Has(rawV, Get(bestFrom, t1))

\* C17: the new path of every scored candidate is the pre-step path of its
\* winning predecessor followed by the candidate, the oldest element dropped
\* first exactly when that path held constraint_length elements.
C17_PathExtension ==
    Returned => \A to_state \in KeySet(path) :
        Get(path, to_state) = Append(PreStepTail(Get(bestFrom, to_state)), to_state)

C17_Witness ==
    /\ Returned
    /\ constraint_length = MaxCL
    /\ \E to_state \in KeySet(path) :
          /\ Has(prePath, Get(bestFrom, to_state))
          /\ Len(Get(prePath, Get(bestFrom, to_state))) = constraint_length
          /\ Get(prePath, Get(bestFrom, to_state))[1] # Get(path, to_state)[1]

\* the distribution the last step worked on, and the predecessors of to_state
\* that have positive mass in it
LastV == SeedV(argV, priors)
Qualifying(to_state) ==
    {f \in KeySet(LastV) \cap KeySet(Get(incoming, to_state)) :
        RLt(Zero, Mass(LastV, f))}
Score(f, to_state) ==
    RMul(RMul(Mass(LastV, f), emission_probability[to_state, obs]),
         Mass(Get(incoming, to_state), f))
ScenarioStep ==
    /\ hmm = ScenarioGraph /\ priors = UniformPriors(hmm)
    /\ argV.isNone /\ nsteps = 1 /\ obs = "w"

\* C18: before normalization the score of a candidate with emission e > 0 and
\* a qualifying predecessor is the maximum over the qualifying predecessors of
\* V[from] * e * p(from->to); candidates of emission <= 0 get no score; in the
\* two-state scenario one step gives B strictly more mass than A.
C18_ScoringRule ==
    Returned =>
        /\ \A i \in 1..Len(candidate_states[obs]) :
              LET c == candidate_states[obs][i]
              IN IF ~RLt(Zero, emission_probability[c, obs])
                 THEN ~Has(rawV, c)
                 ELSE Qualifying(c) # {} =>
                        /\ Has(rawV, c)
                        /\ \E f \in Qualifying(c) : Mass(rawV, c) = Score(f, c)
                        /\ \A f \in Qualifying(c) : RLe(Score(f, c), Mass(rawV, c))
        /\ ScenarioStep =>
              /\ Has(normV, "A") /\ Has(normV, "B")
              /\ RLt(Mass(normV, "A"), Mass(normV, "B"))

C18_Witness ==
    /\ Returned /\ ScenarioStep
    /\ Mass(rawV, "B") = Rat(81, 200)
    /\ Mass(rawV, "A") = Rat(9, 200)
    /\ Has(V.d, "B")

\* every edge from->to of hmm is in the reverse index under [to][from] with its
\* forward probability, and the reverse index holds nothing else
ReverseIndexConsistent ==
    /\ \A i \in 1..Len(hmm) : \A j \in 1..Len(hmm[i][2]) :
          /\ Has(incoming, hmm[i][2][j][1])
          /\ Has(Get(incoming, hmm[i][2][j][1]), hmm[i][1])
          /\ Get(Get(incoming, hmm[i][2][j][1]), hmm[i][1]) = hmm[i][2][j][2]
    /\ \A i \in 1..Len(incoming) : \A j \in 1..Len(incoming[i][2]) :
          /\ Has(hmm, incoming[i][2][j][1])
          /\ \E k \in 1..Len(Get(hmm, incoming[i][2][j][1])) :
                Get(hmm, incoming[i][2][j][1])[k] = <<incoming[i][1], incoming[i][2][j][2]>>

\* C19: after construction and after any sequence of steps the reverse index
\* is the inversion of the graph, and no step changes the graph or the index.
C19_ReverseIndex ==
    /\ []ReverseIndexConsistent
    /\ [][hmm' = hmm /\ incoming' = incoming]_vars

C19_Witness ==
    /\ Returned /\ nsteps = MaxSteps
    /\ ReverseIndexConsistent
    /\ \E s \in KeySet(hmm) : ~Has(incoming, s)
    /\ bestFrom # <<>>

\* hmm lists an edge from_state -> to_state
IsEdge(from_state, to_state) ==
    /\ Has(hmm, from_state)
    /\ \E k \in 1..Len(Get(hmm, from_state)) : Get(hmm, from_state)[k][1] = to_state

\* C20: starting from an empty path table with constraint_length >= 1, every
\* path of a returned path table is non-empty, ends with the state that is its
\* key, and every two consecutive states of it are joined by an edge of hmm.
C20_PathWellFormed ==
    (Returned /\ constraint_length >= 1) => \A s \in KeySet(path) :
        /\ Get(path, s) # <<>>
        /\ Get(path, s)[Len(Get(path, s))] = s
        /\ \A k \in 1..(Len(Get(path, s)) - 1) :
              IsEdge(Get(path, s)[k], Get(path, s)[k + 1])

C20_Witness ==
    /\ Returned /\ constraint_length >= 2
    /\ \E s \in KeySet(path) :
          /\ Len(Get(path, s)) = constraint_length
          /\ Get(path, s)[1] # s
          /\ \E t \in KeySet(hmm) : ~IsEdge(t, s)
    /\ \E t \in KeySet(prePath) : Len(Get(prePath, t)) = constraint_length

====
